---- MODULE Spec2Model ----
(***************************************************************************)
(* The parameter store of bsfh/sedmodel.py (class ThetaParameters) and the *)
(* negative-flux clipping of the two SedModel facades.                     *)
(*                                                                         *)
(* Conventions of the model                                                *)
(*  - theta_desc is the descriptor dictionary in its iteration order: a    *)
(*    sequence of entries; parameter k is the k-th key that iteritems()    *)
(*    yields.  An entry is a record whose DOMAIN is the set of keys of the *)
(*    Python dictionary v, so  "upper" \in DOMAIN v  is 'upper' in v.keys()*)
(*  - arrays are sequences; Python's 0-based half-open slices are kept.    *)
(*  - numbers are integers: theta values, walls and fluxes lie on a grid   *)
(*    on which 2*w - x and min/len are exact.                              *)
(*  - attrs is the set of attributes the object has; reading an attribute  *)
(*    that is not in it is Python's AttributeError.                        *)
(*  - self.verbose (read at lines 141 and 156, never set by the class) is  *)
(*    taken to be set by the caller; it only prints.                       *)
(***************************************************************************)
EXTENDS Integers, Sequences, FiniteSets, TLC

VARIABLES theta_desc, params, ndim, attrs, pc, ret,
          theta, sign, oob, passes, reflected

vars == <<theta_desc, params, ndim, attrs, pc, ret,
          theta, sign, oob, passes, reflected>>

(* ------------------------------ bounds ------------------------------- *)
\* the largest ndim (sum of N) of a descriptor, and one more than the
\* largest offset i0
MaxDim == 3
\* check_constrained: the largest ndim of a descriptor with walls
MaxWallDim == 2
\* check_constrained: the pass counter stops counting here
MaxPasses == 2
\* the longest spectrum
MaxSpecLen == 3

\* the number of entries of a descriptor
ParamCounts == {1, 2}

Min(a, b) == IF a < b THEN a ELSE b

RECURSIVE SumSeq(_)
SumSeq(s) == IF s = <<>> THEN 0 ELSE Head(s) + SumSeq(Tail(s))

(* ------------------------- numpy primitives -------------------------- *)
\* a[start:end] for 0 <= start <= end: clipped to the array, never an error
Slice(a, start, end) == SubSeq(a, Min(start, Len(a)) + 1, Min(end, Len(a)))

\* np.zeros(n)
Zeros(n) == [i \in 1..n |-> 0]

\* a[start:end] = val.  The target is the clipped slice; val must have its
\* length or length 1 (broadcast), otherwise numpy raises ValueError.
SliceAssign(a, start, end, val) ==
    LET lo == Min(start, Len(a))
        hi == Min(end, Len(a))
        t  == hi - lo
    IN  IF Len(val) = t
        THEN [error |-> "", arr |-> [i \in 1..Len(a) |->
                 IF i > lo /\ i <= hi THEN val[i - lo] ELSE a[i]]]
        ELSE IF Len(val) = 1
        THEN [error |-> "", arr |-> [i \in 1..Len(a) |->
                 IF i > lo /\ i <= hi THEN val[1] ELSE a[i]]]
        ELSE [error |-> "ValueError", arr |-> a]

(* --------------------------- descriptors ----------------------------- *)
\* the [i0, i0+N) ranges cover every slot of [0, n) exactly once
IsPartition(desc) ==
    LET n == SumSeq([k \in 1..Len(desc) |-> desc[k].N])
    IN  /\ \A k \in 1..Len(desc) : desc[k].i0 + desc[k].N <= n
        /\ \A j \in 0..(n - 1) :
             Cardinality({k \in 1..Len(desc) :
                 desc[k].i0 <= j /\ j < desc[k].i0 + desc[k].N}) = 1

\* entries that carry only the index range
LayoutEntries == [i0 : 0..(MaxDim - 1), N : 1..MaxDim]

DescOver(entries) ==
    {d \in UNION {[1..n -> entries] : n \in ParamCounts} :
        SumSeq([k \in 1..Len(d) |-> d[k].N]) <= MaxDim}

LayoutDescs == DescOver(LayoutEntries)

\* the store only copies values: two of them tell every slot from the next
ThetaVals == {0, 1}

\* theta vectors of length n
Thetas(n) == [1..n -> ThetaVals]

AnyTheta == UNION {Thetas(n) : n \in 0..(MaxDim + 1)}

(* ------------------------- ThetaParameters --------------------------- *)
Self == [theta_desc |-> theta_desc, params |-> params, ndim |-> ndim,
         attrs |-> attrs]

\* the loop of set_parameters: every key gets np.array(theta[start:end])
SetAll(desc, th) == [k \in 1..Len(desc) |->
                        Slice(th, desc[k].i0, desc[k].i0 + desc[k].N)]

\* set_parameters without its assertion: the slices of whatever came
set_parameters_unchecked(self, th) ==
    IF "ndim" \notin self.attrs
    THEN [error |-> "AttributeError", params |-> self.params]
    ELSE [error |-> "", params |-> SetAll(self.theta_desc, th)]

\* set_parameters(theta): the new params, or the error raised
set_parameters(self, th) ==
    IF "ndim" \notin self.attrs
    THEN [error |-> "AttributeError", params |-> self.params]
    ELSE IF Len(th) # self.ndim
    THEN [error |-> "AssertionError", params |-> self.params]
    ELSE [error |-> "", params |-> SetAll(self.theta_desc, th)]

\* the loop of theta_from_params from entry k on, th being the array so far
RECURSIVE FillFrom(_, _, _)
FillFrom(self, k, th) ==
    IF k > Len(self.theta_desc) THEN [error |-> "", arr |-> th]
    ELSE IF k \notin DOMAIN self.params
    THEN [error |-> "KeyError", arr |-> th]
    ELSE LET v == self.theta_desc[k]
             r == SliceAssign(th, v.i0, v.i0 + v.N, self.params[k])
         IN  IF r.error # "" THEN r ELSE FillFrom(self, k + 1, r.arr)

\* theta_from_params with the slot of every entry shifted by one
theta_from_params_shifted(self) ==
    FillFrom([self EXCEPT !.theta_desc =
                 [k \in 1..Len(self.theta_desc) |->
                     [self.theta_desc[k] EXCEPT !.i0 = @ + 1]]],
             1, Zeros(self.ndim))

\* theta_from_params()
theta_from_params(self) == FillFrom(self, 1, Zeros(self.ndim))

\* the outcome of a call as the caller sees it
Outcome(op, arg, error, value) ==
    [op |-> op, arg |-> arg, error |-> error, value |-> value]

NoCall == Outcome("", <<>>, "", <<>>)

\* the locals of check_constrained when no call of it is running
NoLocals ==
    /\ theta = <<>>
    /\ sign = <<>>
    /\ oob = FALSE
    /\ passes = 0
    /\ reflected = FALSE

(* -------------------------- store lifecycle -------------------------- *)
\* before ThetaParameters(theta_desc, theta_init) runs
Init ==
    /\ theta_desc \in LayoutDescs
    /\ params = <<>>
    /\ ndim = 0
    /\ attrs = {}
    /\ pc = "new"
    /\ ret = NoCall
    /\ NoLocals

\* __init__(theta_desc, theta_init): theta_init is a list or None; None
\* and the empty list are both falsy and are both written <<>>.  No static
\* parameters are passed (kwargs is empty).
Construct(theta_init) ==
    /\ pc = "new"
    /\ LET s0 == [theta_desc |-> theta_desc, params |-> <<>>, ndim |-> 0,
                  attrs |-> {"theta_desc", "params"}]
           r  == IF theta_init # <<>> THEN set_parameters(s0, theta_init)
                 ELSE [error |-> "", params |-> <<>>]
       IN  IF r.error # ""
           THEN /\ pc' = "failed"
                /\ attrs' = s0.attrs
                /\ params' = r.params
                /\ ndim' = 0
                /\ ret' = Outcome("__init__", theta_init, r.error, <<>>)
           ELSE /\ pc' = "idle"
                /\ attrs' = s0.attrs \cup {"ndim"}
                /\ params' = r.params
                /\ ndim' = SumSeq([k \in 1..Len(theta_desc) |-> theta_desc[k].N])
                /\ ret' = Outcome("__init__", theta_init, "", <<>>)
    /\ UNCHANGED <<theta_desc, theta, sign, oob, passes, reflected>>

SetParameters(th) ==
    /\ pc = "idle"
    /\ LET r == set_parameters(Self, th)
       IN  /\ params' = r.params
           /\ ret' = Outcome("set_parameters", th, r.error, <<>>)
    /\ UNCHANGED <<theta_desc, ndim, attrs, pc, theta, sign, oob, passes, reflected>>

ThetaFromParams ==
    /\ pc = "idle"
    /\ LET r == theta_from_params(Self)
       IN  ret' = Outcome("theta_from_params", <<>>, r.error,
                          IF r.error = "" THEN r.arr ELSE <<>>)
    /\ UNCHANGED <<theta_desc, params, ndim, attrs, pc, theta, sign, oob, passes, reflected>>

Next ==
    \/ \E theta_init \in AnyTheta : Construct(theta_init)
    \/ \E th \in AnyTheta : SetParameters(th)
    \/ ThetaFromParams

Spec == Init /\ [][Next]_vars

\* the state __init__(theta_desc) leaves: a constructed store, no values
\* set yet, on a descriptor drawn from descs
Constructed(descs) ==
    /\ theta_desc \in descs
    /\ params = <<>>
    /\ ndim = SumSeq([k \in 1..Len(theta_desc) |-> theta_desc[k].N])
    /\ attrs = {"theta_desc", "params", "ndim"}
    /\ pc = "idle"
    /\ ret = NoCall
    /\ NoLocals

(* ------------------- claims on the store lifecycle ------------------- *)
DescNdim == SumSeq([k \in 1..Len(theta_desc) |-> theta_desc[k].N])

\* C1: round trip.  For a descriptor whose ranges partition [0, ndim), a
\* theta_from_params() that directly follows a successful
\* set_parameters(theta) returns theta: same length ndim, same value in
\* every slot.
C1_RoundTrip ==
    [][(/\ IsPartition(theta_desc)
        /\ ret.op = "set_parameters" /\ ret.error = ""
        /\ ret'.op = "theta_from_params")
       => (/\ ret'.error = ""
           /\ Len(ret'.value) = ndim
           /\ ret'.value = ret.arg)]_vars

\* a two-entry partition, iterated out of slot order, gave back a theta
\* whose slots differ
C1_Witness ==
    /\ ret.op = "theta_from_params" /\ ret.error = ""
    /\ IsPartition(theta_desc)
    /\ Len(theta_desc) = 2 /\ theta_desc[1].i0 > 0
    /\ ret.value = <<0, 1, 1>>

\* C4: set_parameters(theta) with len(theta) # ndim fails with the shape
\* error of the code (the AssertionError of its assert) and leaves the
\* named values of the store as they were.
C4_ShapeMismatchKeepsStore ==
    [][(ret'.op = "set_parameters" /\ Len(ret'.arg) # ndim)
       => (ret'.error = "AssertionError" /\ params' = params)]_vars

\* a store that holds values refused a vector that is one too long
C4_Witness ==
    /\ ret.op = "set_parameters" /\ ret.error = "AssertionError"
    /\ Len(ret.arg) = ndim + 1
    /\ params # <<>>
    /\ \E k \in DOMAIN params : params[k] # <<>> /\ params[k][1] # ret.arg[1]

\* C8: a store is only ever constructed (usable) on a descriptor whose
\* ranges partition [0, ndim); any other descriptor is refused at
\* construction time.
C8_OnlyPartitionsConstructed ==
    pc = "idle" => IsPartition(theta_desc)

\* C10: constructing with a theta_init of length ndim succeeds and the
\* store then holds those values: theta_from_params() gives theta_init.
C10_InitialValuesHeld ==
    (/\ ret.op = "__init__"
     /\ ret.arg # <<>>
     /\ Len(ret.arg) = DescNdim)
    => (/\ ret.error = ""
        /\ pc = "idle"
        /\ theta_from_params(Self).error = ""
        /\ theta_from_params(Self).arr = ret.arg)

(* ------------------------- check_constrained ------------------------- *)
\* theta[i] > v['upper'], theta[i] < v['lower'] and the mirror image
Above(x, w) == x > w
BelowFlipped(x, w) == x > w
Below(x, w) == x < w
Mirror(x, w) == 2 * w - x

\* the slots of theta[start:end], as indices of the sequence
SliceIdx(th, v) == {i \in 1..Len(th) : v.i0 < i /\ i <= v.i0 + v.N}

\* the 'upper' block of one entry; st is [theta, sign, oob, reflected]
UpperBlock(v, st) ==
    IF "upper" \notin DOMAIN v THEN st
    ELSE LET above == {i \in SliceIdx(st.theta, v) : Above(st.theta[i], v.upper)}
         IN  [theta |-> [i \in 1..Len(st.theta) |->
                 IF i \in above THEN Mirror(st.theta[i], v.upper) ELSE st.theta[i]],
              sign |-> [i \in 1..Len(st.sign) |->
                 IF i \in above THEN 0 - st.sign[i] ELSE st.sign[i]],
              oob |-> (st.oob \/ above # {}),
              reflected |-> (st.reflected \/ above # {})]

\* the 'lower' block without its oob update
LowerBlockSilent(v, st) ==
    IF "lower" \notin DOMAIN v THEN st
    ELSE LET below == {i \in SliceIdx(st.theta, v) : Below(st.theta[i], v.lower)}
         IN  [theta |-> [i \in 1..Len(st.theta) |->
                 IF i \in below THEN Mirror(st.theta[i], v.lower) ELSE st.theta[i]],
              sign |-> [i \in 1..Len(st.sign) |->
                 IF i \in below THEN 0 - st.sign[i] ELSE st.sign[i]],
              oob |-> st.oob,
              reflected |-> (st.reflected \/ below # {})]

\* the 'lower' block of one entry
LowerBlock(v, st) ==
    IF "lower" \notin DOMAIN v THEN st
    ELSE LET below == {i \in SliceIdx(st.theta, v) : Below(st.theta[i], v.lower)}
         IN  [theta |-> [i \in 1..Len(st.theta) |->
                 IF i \in below THEN Mirror(st.theta[i], v.lower) ELSE st.theta[i]],
              sign |-> [i \in 1..Len(st.sign) |->
                 IF i \in below THEN 0 - st.sign[i] ELSE st.sign[i]],
              oob |-> (st.oob \/ below # {}),
              reflected |-> (st.reflected \/ below # {})]

\* the body of the for loop for one entry: the 'upper' block, then the
\* 'lower' block on what it left.  (The singleton sets only fix the order
\* of evaluation: each block is computed once.)
EntryBlocks(v, st) ==
    CHOOSE r \in {LowerBlock(v, u) : u \in {UpperBlock(v, st)}} : TRUE

\* the for loop of one pass, from entry k on
RECURSIVE PassFrom(_, _, _)
PassFrom(desc, k, st) ==
    IF k > Len(desc) THEN st
    ELSE CHOOSE r \in {PassFrom(desc, k + 1, n) :
                          n \in {EntryBlocks(desc[k], st)}} : TRUE

\* the positions of a wall, and the values of theta around them: one step
\* and two steps outside, so that a mirror image can overshoot the other wall
WallVals == {1, 2}
WallThetaVals == (0 - 1)..3

\* the walls an entry may declare
WithWalls(e) ==
    {e} \cup {e @@ [upper |-> u] : u \in WallVals}
        \cup {e @@ [lower |-> l] : l \in WallVals}
        \cup {e @@ [upper |-> u, lower |-> l] : u \in WallVals, l \in WallVals}

WallEntries == UNION {WithWalls(e) : e \in [i0 : 0..(MaxWallDim - 1), N : 1..MaxWallDim]}

\* no slot has a lower wall above one of its upper walls.  With such a pair
\* every pass moves the value further out, without end and without bound.
NoInvertedWalls(d) ==
    \A k1 \in 1..Len(d), k2 \in 1..Len(d) :
        (/\ "lower" \in DOMAIN d[k1] /\ "upper" \in DOMAIN d[k2]
         /\ d[k1].i0 < d[k2].i0 + d[k2].N /\ d[k2].i0 < d[k1].i0 + d[k1].N)
        => d[k1].lower <= d[k2].upper

WallDescs ==
    {d \in UNION {[1..n -> WallEntries] : n \in ParamCounts} :
        /\ SumSeq([k \in 1..Len(d) |-> d[k].N]) <= MaxWallDim
        /\ NoInvertedWalls(d)}

WallThetas(n) == [1..n -> WallThetaVals]

ReflectInit == Constructed(WallDescs)

\* check_constrained(theta) up to the while: theta is an array of shape
\* (ndim,), sign = np.ones_like(theta), oob = True
CheckConstrained(th) ==
    /\ pc = "idle"
    /\ pc' = "while"
    /\ theta' = th
    /\ sign' = [i \in 1..Len(th) |-> 1]
    /\ oob' = TRUE
    /\ passes' = 0
    /\ reflected' = FALSE
    /\ ret' = Outcome("check_constrained", th, "", <<>>)
    /\ UNCHANGED <<theta_desc, params, ndim, attrs>>

\* while oob: oob = False
WhileEnter ==
    /\ pc = "while"
    /\ oob
    /\ oob' = FALSE
    /\ pc' = "for"
    /\ UNCHANGED <<theta_desc, params, ndim, attrs, ret, theta, sign, passes, reflected>>

\* for p, v in self.theta_desc.iteritems(): ... : one full pass
ForLoop ==
    /\ pc = "for"
    /\ \E st \in {PassFrom(theta_desc, 1,
                    [theta |-> theta, sign |-> sign, oob |-> oob,
                     reflected |-> reflected])} :
           /\ theta' = st.theta
           /\ sign' = st.sign
           /\ oob' = st.oob
           /\ reflected' = st.reflected
    /\ passes' = Min(passes + 1, MaxPasses)
    /\ pc' = "while"
    /\ UNCHANGED <<theta_desc, params, ndim, attrs, ret>>

\* the while test fails: return theta, sign, oob
ReflectReturn ==
    /\ pc = "while"
    /\ ~oob
    /\ pc' = "returned"
    /\ ret' = [ret EXCEPT !.value = <<theta, sign, oob>>]
    /\ UNCHANGED <<theta_desc, params, ndim, attrs, theta, sign, oob, passes, reflected>>

ReflectNext ==
    \/ \E th \in WallThetas(ndim) : CheckConstrained(th)
    \/ WhileEnter
    \/ ForLoop
    \/ ReflectReturn

ReflectSpec == ReflectInit /\ [][ReflectNext]_vars

\* the interpreter runs a call that has started: the loop test, the loop
\* body and the return are taken whenever they can be
ReflectFairSpec ==
    ReflectInit /\ [][ReflectNext]_vars
        /\ WF_vars(WhileEnter) /\ WF_vars(ForLoop) /\ WF_vars(ReflectReturn)

(* ---------------------- claims on the reflection --------------------- *)
\* C2: the third result of check_constrained is true exactly when a
\* component was reflected during the call.
C2_FlagIffReflected ==
    pc = "returned" => (ret.value[3] <=> reflected)

\* C3: every call of check_constrained ends: it returns or stops with an
\* error.
C3_AlwaysTerminates ==
    (pc = "while") ~> (pc = "returned" \/ pc = "failed")

\* every component of th is inside the walls of every entry over its slot
WithinWalls(desc, th) ==
    \A k \in 1..Len(desc) : \A i \in SliceIdx(th, desc[k]) :
        /\ "upper" \in DOMAIN desc[k] => th[i] <= desc[k].upper
        /\ "lower" \in DOMAIN desc[k] => desc[k].lower <= th[i]

Scalar(x) == [scalar |-> TRUE, v |-> <<x>>]
Array(a) == [scalar |-> FALSE, v |-> a]

\* component j (0-based) of a value that numpy broadcasts against an array
Component(x, j) == IF x.scalar THEN x.v[1] ELSE x.v[j + 1]

\* v['prior_function'](x, **v['prior_args']): the callables a descriptor
\* carries are the caller's; these two stand for them.  Each returns one
\* log-density per component of x.
CallPrior(f, x, args) ==
    IF f = "linear"
    THEN [i \in 1..Len(x) |-> x[i] - Component(args.mini, i - 1)]
    ELSE [i \in 1..Len(x) |-> 0 - (Component(args.maxi, i - 1) - x[i])
                                    * (Component(args.maxi, i - 1) - x[i])]

\* the loop of prior_product from entry k on, with only '=' where the
\* code has '+='
RECURSIVE PriorLast(_, _, _, _)
PriorLast(desc, k, th, lnp) ==
    IF k > Len(desc) THEN [error |-> "", value |-> lnp]
    ELSE IF "prior_function" \notin DOMAIN desc[k]
    THEN [error |-> "KeyError", value |-> lnp]
    ELSE PriorLast(desc, k + 1, th,
            SumSeq(CallPrior(desc[k].prior_function,
                      Slice(th, desc[k].i0, desc[k].i0 + desc[k].N),
                      desc[k].prior_args)))

\* the loop of prior_product from entry k on, lnp being lnp_prior so far
RECURSIVE PriorFrom(_, _, _, _)
PriorFrom(desc, k, th, lnp) ==
    IF k > Len(desc) THEN [error |-> "", value |-> lnp]
    ELSE IF "prior_function" \notin DOMAIN desc[k]
    THEN [error |-> "KeyError", value |-> lnp]
    ELSE PriorFrom(desc, k + 1, th,
            lnp + SumSeq(CallPrior(desc[k].prior_function,
                            Slice(th, desc[k].i0, desc[k].i0 + desc[k].N),
                            desc[k].prior_args)))

prior_product_last(self, th) == PriorLast(self.theta_desc, 1, th, 0)

\* prior_product(theta)
prior_product(self, th) == PriorFrom(self.theta_desc, 1, th, 0)

PriorArgs == {[mini |-> Scalar(0), maxi |-> Scalar(2)],
              [mini |-> Scalar(1), maxi |-> Scalar(1)]}

\* an entry with prior arguments, with or without a prior function
WithPrior(e) ==
    {e @@ [prior_args |-> a] : a \in PriorArgs}
        \cup {e @@ [prior_function |-> f, prior_args |-> a] :
                 f \in {"linear", "quadratic"}, a \in PriorArgs}

PriorDescs == DescOver(UNION {WithPrior(e) : e \in LayoutEntries})

PriorInit == Constructed(PriorDescs)

PriorProduct(th) ==
    /\ pc = "idle"
    /\ pc' = "returned"
    /\ LET r == prior_product(Self, th)
       IN  ret' = Outcome("prior_product", th, r.error,
                          IF r.error = "" THEN r.value ELSE 0)
    /\ UNCHANGED <<theta_desc, params, ndim, attrs, theta, sign, oob, passes, reflected>>

PriorNext == \E th \in Thetas(ndim) : PriorProduct(th)

PriorSpec == PriorInit /\ [][PriorNext]_vars

(* ------------------------ claims on the priors ----------------------- *)
HasPrior(v) == "prior_function" \in DOMAIN v

\* the prior of entry k evaluated alone on its slice of th
PriorAlone(desc, k, th) ==
    SumSeq(CallPrior(desc[k].prior_function,
              Slice(th, desc[k].i0, desc[k].i0 + desc[k].N),
              desc[k].prior_args))

ListSet(b, j, pair) ==
    IF j >= Len(b) THEN [error |-> "IndexError", list |-> b]
    ELSE [error |-> "", list |-> [i \in 1..Len(b) |-> IF i = j + 1 THEN pair ELSE b[i]]]

\* for k in range(sz): bounds[i0+k] = (mini[k], maxi[k]), from k on
RECURSIVE PerComponent(_, _, _)
PerComponent(v, k, b) ==
    IF k >= Len(v.prior_args.mini.v) THEN [error |-> "", list |-> b]
    ELSE LET r == ListSet(b, v.i0 + k,
                      <<Scalar(v.prior_args.mini.v[k + 1]),
                        Scalar(v.prior_args.maxi.v[k + 1])>>)
         IN  IF r.error # "" THEN r ELSE PerComponent(v, k + 1, r.list)

\* the loop of bounds() from entry k on
RECURSIVE BoundsFrom(_, _, _)
BoundsFrom(desc, k, b) ==
    IF k > Len(desc) THEN [error |-> "", list |-> b]
    ELSE LET v == desc[k]
             r == IF Len(v.prior_args.mini.v) = 1
                  THEN ListSet(b, v.i0, <<v.prior_args.mini, v.prior_args.maxi>>)
                  ELSE PerComponent(v, 0, b)
         IN  IF r.error # "" THEN r ELSE BoundsFrom(desc, k + 1, r.list)

\* bounds()
bounds(self) ==
    BoundsFrom(self.theta_desc, 1,
               [i \in 1..self.ndim |-> <<Scalar(0), Scalar(0)>>])

\* mini is a number or an array of length N, maxi lies 2 above it
BoundArgs(n) ==
    {[mini |-> Scalar(m), maxi |-> Scalar(m + 2)] : m \in {1, 2}}
        \cup {[mini |-> Array(a), maxi |-> Array([i \in 1..n |-> a[i] + 2])] :
                 a \in [1..n -> {1, 2}]}

BoundsDescs ==
    DescOver(UNION {{e @@ [prior_args |-> a] : a \in BoundArgs(e.N)} :
                       e \in LayoutEntries})

BoundsInit == Constructed(BoundsDescs)

Bounds ==
    /\ pc = "idle"
    /\ pc' = "returned"
    /\ LET r == bounds(Self)
       IN  ret' = Outcome("bounds", <<>>, r.error,
                          IF r.error = "" THEN r.list ELSE <<>>)
    /\ UNCHANGED <<theta_desc, params, ndim, attrs, theta, sign, oob, passes, reflected>>

BoundsNext == Bounds

BoundsSpec == BoundsInit /\ [][BoundsNext]_vars

\* C6: bounds() returns ndim pairs in slot order; the pair at slot i0+k of
\* an entry is (mini[k], maxi[k]) for arrays and (mini, maxi) for scalars,
\* a scalar being broadcast to all N components.
C6_BoundsPerSlot ==
    (ret.op = "bounds" /\ IsPartition(theta_desc))
    => /\ ret.error = ""
       /\ Len(ret.value) = ndim
       /\ \A e \in 1..Len(theta_desc) : \A k \in 0..(theta_desc[e].N - 1) :
            LET pair == ret.value[theta_desc[e].i0 + k + 1]
            IN  /\ pair[1].v = <<Component(theta_desc[e].prior_args.mini, k)>>
                /\ pair[2].v = <<Component(theta_desc[e].prior_args.maxi, k)>>

(* -------------------- negative-flux clipping (sed) ------------------- *)
RECURSIVE Factorial(_)
Factorial(n) == IF n <= 1 THEN 1 ELSE n * Factorial(n - 1)

\* fluxes are multiples of FluxUnit, so that min/len(spec) is on the grid
FluxUnit == Factorial(MaxSpecLen)
Fluxes == {f * FluxUnit : f \in (0 - 1)..2}
Spectra == UNION {[1..n -> Fluxes] : n \in 1..MaxSpecLen}

\* obs.get('normalization_guess', 1.0)
NormGuesses == {1, 2}

RECURSIVE MinOf(_)
MinOf(S) == LET x == CHOOSE y \in S : TRUE
            IN  IF S = {x} THEN x ELSE Min(x, MinOf(S \ {x}))

\* tiny = 1.0/len(spec) * spec[spec > 0].min(); spec[spec < tiny] = tiny
\* 1.0/len(spec) raises ZeroDivisionError on an empty spectrum, .min()
\* raises ValueError on an empty selection.
Clip(spec) ==
    LET positive == {spec[i] : i \in {j \in 1..Len(spec) : spec[j] > 0}}
        tiny == MinOf(positive) \div Len(spec)
    IN  IF Len(spec) = 0 THEN [error |-> "ZeroDivisionError", spec |-> spec]
        ELSE IF positive = {} THEN [error |-> "ValueError", spec |-> spec]
        ELSE [error |-> "", spec |-> [i \in 1..Len(spec) |->
                 IF spec[i] < tiny THEN tiny ELSE spec[i]]]

Scaled(raw, norm) == [i \in 1..Len(raw) |-> raw[i] * norm]

\* sky()
sky == 0

SedDescs == {d \in LayoutDescs : IsPartition(d)}

SedInit == Constructed(SedDescs)

\* prospect SedModel.sed(theta, obs, sps): raw is what sps.get_spectrum
\* returns; the clipping runs inside  try: ... except: pass
Sed(th, raw, norm) ==
    /\ pc = "idle"
    /\ pc' = "returned"
    /\ LET sp == set_parameters(Self, th)
           c  == Clip(Scaled(raw, norm))
       IN  /\ params' = sp.params
           /\ IF sp.error # ""
              THEN /\ ret' = Outcome("sed", Scaled(raw, norm), sp.error, <<>>)
                   /\ attrs' = attrs
              ELSE /\ ret' = Outcome("sed", Scaled(raw, norm), "",
                                     [i \in 1..Len(c.spec) |-> c.spec[i] + sky])
                   /\ attrs' = attrs \cup {"_spec"}
    /\ UNCHANGED <<theta_desc, ndim, theta, sign, oob, passes, reflected>>

\* bsfh SedModel.mean_model(theta, sps): the same clipping, unguarded
MeanModel(th, raw, norm) ==
    /\ pc = "idle"
    /\ pc' = "returned"
    /\ LET sp == set_parameters(Self, th)
           c  == Clip(Scaled(raw, norm))
       IN  /\ params' = sp.params
           /\ IF sp.error # ""
              THEN ret' = Outcome("mean_model", Scaled(raw, norm), sp.error, <<>>)
              ELSE IF c.error # ""
              THEN ret' = Outcome("mean_model", Scaled(raw, norm), c.error, <<>>)
              ELSE ret' = Outcome("mean_model", Scaled(raw, norm), "",
                                  [i \in 1..Len(c.spec) |-> c.spec[i] + sky])
    /\ UNCHANGED <<theta_desc, ndim, attrs, theta, sign, oob, passes, reflected>>

SedNext ==
    \/ \E th \in Thetas(ndim), raw \in Spectra, norm \in NormGuesses :
          Sed(th, raw, norm)
    \/ \E th \in Thetas(ndim), raw \in Spectra, norm \in NormGuesses :
          MeanModel(th, raw, norm)

SedSpec == SedInit /\ [][SedNext]_vars

\* C9: sed / mean_model raise when the spectrum has no strictly positive
\* value; otherwise every non-positive entry becomes the floor
\* tiny = (smallest positive value)/len(spec) and every positive entry is
\* left as it is.  (ret.arg is the spectrum after normalization_guess.)
C9_ClipOrRaise ==
    ret.op \in {"sed", "mean_model"}
    => IF \A i \in 1..Len(ret.arg) : ret.arg[i] <= 0
       THEN ret.error # ""
       ELSE /\ ret.error = ""
            /\ Len(ret.value) = Len(ret.arg)
            /\ \A i \in 1..Len(ret.arg) :
                 ret.value[i] =
                    IF ret.arg[i] <= 0
                    THEN MinOf({ret.arg[j] : j \in {n \in 1..Len(ret.arg) : ret.arg[n] > 0}})
                             \div Len(ret.arg)
                    ELSE ret.arg[i]

====
